---- MODULE Spec2Model ----
(***************************************************************************)
(* Model of openwebui_watcher/cli.py: the polling loop main() that calls   *)
(* scan_and_upload_changes every 3 seconds with a 6 second change window,  *)
(* the duplicate index filename_to_fileid, and the remote knowledge base   *)
(* reached through upload_file, add_file_to_knowledge,                     *)
(* remove_file_from_knowledge and delete_file_from_system.                 *)
(*                                                                         *)
(* Strings are sequences of one-character strings, so that basename,       *)
(* splitext and lower are computed as the code computes them.              *)
(* Time is counted in whole seconds.                                       *)
(***************************************************************************)
EXTENDS Integers, Sequences, FiniteSets, TLC

VARIABLES
    clock,               \* wall clock read by time.time()
    mtime,               \* path -> modification time, read by os.path.getmtime
    ALLOWED_EXTS,        \* None, or Exts(S) for a set S of lowercase extensions
    filename_to_fileid,  \* basename -> remote file id
    remote,              \* the remote service: id -> file record
    pc,                  \* position of the process inside main / scan_and_upload_changes
    now,                 \* local variable now of scan_and_upload_changes
    todo,                \* (root, fname) pairs os.walk has not yielded yet in this cycle
    file_path,           \* local variable file_path
    file_id,             \* local variable file_id
    calls,               \* history: gateway calls issued in the current cycle
    pre,                 \* history: filename_to_fileid when the current transition began
    prevNow,             \* history: now of the previous cycle of this process, or NoTime
    nfail,               \* history: number of stat, read and gateway failures so far
    ntouch,              \* history: number of writes to files under the scan root so far
    synced,              \* history: path -> id of its completed upload, while its mtime is unchanged
    stale,               \* history: ids created by an upload the process exit interrupted
    restarts,            \* history: number of process restarts
    statfail,            \* history: path -> now of the cycle in which getmtime last failed for it
    examined,            \* history: path -> now of the last cycle that called getmtime on it
    completed,           \* history: ids this process has created and linked
    attempted            \* history: ids this process has issued an unlink or a delete call for

vars == <<clock, mtime, ALLOWED_EXTS, filename_to_fileid, remote, pc, now, todo,
          file_path, file_id, calls, pre, prevNow, nfail, ntouch, synced, stale, restarts,
          statfail, examined, completed, attempted>>

(* Environment events so far: failed calls, writes to files, process exits *)
nevents == nfail + ntouch + restarts

----------------------------------------------------------------------------
(* Bounds *)

MaxTime == 11
MaxEvents == 2

(* Program constants *)

INTERVAL == 6
SLEEP == 3

(* Values standing for Python's None and for absent history *)

None == [none |-> TRUE, exts |-> {}]
Exts(S) == [none |-> FALSE, exts |-> S]
NoFile == <<>>
NoId == 0
NoTime == 0 - 1
StartTime == INTERVAL + 1

----------------------------------------------------------------------------
(* The scanned tree: what os.walk(".") yields as (root, fname) *)

Str_a_x == <<"x", ".", "t">>
Str_y_B == <<"y", ".", "B">>
Dir_a == <<".", "/", "a">>
Dir_b == <<".", "/", "b">>
Dir_c == <<".", "/", "c">>

Walk == { <<Dir_a, Str_a_x>>, <<Dir_b, Str_a_x>>, <<Dir_c, Str_y_B>> }

join(root, fname) == root \o <<"/">> \o fname

Paths == { join(w[1], w[2]) : w \in Walk }

(* Index of the last occurrence of character c in s, 0 when absent *)
rfind(s, c) ==
    LET hits == { i \in 1..Len(s) : s[i] = c }
    IN  IF hits = {} THEN 0 ELSE CHOOSE i \in hits : \A j \in hits : j <= i

basename(p) == SubSeq(p, rfind(p, "/") + 1, Len(p))

(* os.path.splitext(p)[1]: the text from the last dot of the last path      *)
(* component, "" when there is none or when only leading dots precede it.   *)
splitext_ext(p) ==
    LET sep == rfind(p, "/")
        dot == rfind(p, ".")
    IN  IF dot > sep /\ \E k \in (sep + 1)..(dot - 1) : p[k] # "."
        THEN SubSeq(p, dot, Len(p))
        ELSE <<>>

lower_char(c) ==
    CASE c = "B" -> "b"
      [] c = "T" -> "t"
      [] c = "X" -> "x"
      [] c = "Y" -> "y"
      [] OTHER -> c

lower(s) == [i \in 1..Len(s) |-> lower_char(s[i])]

has_allowed_extension(p, allowed) ==
    IF allowed = None
    THEN TRUE
    ELSE LET e == splitext_ext(p)
             ext == lower(SubSeq(e, 2, Len(e)))
         IN  ext \in allowed.exts

(* str.split(sep): the pieces of s between the occurrences of sep *)
RECURSIVE split(_, _)
split(s, sep) ==
    LET hits == { i \in 1..Len(s) : s[i] = sep }
    IN  IF hits = {}
        THEN <<s>>
        ELSE LET i == CHOOSE h \in hits : \A j \in hits : h <= j
             IN  <<SubSeq(s, 1, i - 1)>> \o split(SubSeq(s, i + 1, Len(s)), sep)

(* str.strip(): s without its leading and trailing blanks *)
strip(s) ==
    LET keep == { i \in 1..Len(s) : s[i] # " " }
    IN  IF keep = {}
        THEN <<>>
        ELSE SubSeq(s, CHOOSE i \in keep : \A j \in keep : i <= j,
                       CHOOSE i \in keep : \A j \in keep : j <= i)

(* Lines 31-36: ALLOWED_EXTS from the text of ALLOWED_FILE_EXTENSIONS; the  *)
(* empty text, which is also the default of os.getenv, gives None.          *)
parse_ALLOWED_EXTS(ALLOWED_FILE_EXTENSIONS) ==
    IF ALLOWED_FILE_EXTENSIONS # <<>>
    THEN LET parts == split(ALLOWED_FILE_EXTENSIONS, ",")
         IN  Exts({ lower(strip(parts[k])) :
                       k \in { j \in 1..Len(parts) : strip(parts[j]) # <<>> } })
    ELSE None

(* Values of the environment variable ALLOWED_FILE_EXTENSIONS *)
Env_unset == <<>>
Env_T == <<" ", "T">>
Env_b == <<"b", ",">>
Env_comma == <<",">>

EnvValues == { Env_unset, Env_T, Env_b, Env_comma }

(* The name under which upload_file posts the file: its basename *)
display_name(p) == basename(p)

----------------------------------------------------------------------------
(* Dictionaries *)

EmptyMap == [k \in {} |-> NoId]

dict_set(m, k, v) == [b \in DOMAIN m \cup {k} |-> IF b = k THEN v ELSE m[b]]

dict_del(m, k) == [b \in DOMAIN m \ {k} |-> m[b]]

(* What fetch_knowledge_files stores into the index from the listing of the *)
(* collection: filename -> id for every listed file.                        *)
Listing(r) == { i \in DOMAIN r : r[i].exists /\ r[i].linked }

fetch_knowledge_files(index, r) ==
    LET names == { r[i].name : i \in Listing(r) }
    IN  [n \in DOMAIN index \cup names |->
            IF n \in names
            THEN CHOOSE i \in Listing(r) :
                    r[i].name = n /\ \A j \in Listing(r) : r[j].name = n => j <= i
            ELSE index[n]]

Call(op, p, i, ok) == [op |-> op, path |-> p, id |-> i, ok |-> ok]

----------------------------------------------------------------------------
(* Initial state: the module is loaded, main() has not begun. The collection *)
(* already lists one file, left by an earlier run of the watcher.            *)

PreExisting == [name |-> Str_a_x, path |-> NoFile, exists |-> TRUE, linked |-> TRUE]

Init ==
    /\ clock = StartTime
    /\ \E t \in {0, StartTime - 2} : mtime = [p \in Paths |-> t]
    /\ \E env \in EnvValues : ALLOWED_EXTS = parse_ALLOWED_EXTS(env)
    /\ filename_to_fileid = EmptyMap
    /\ remote = <<PreExisting>>
    /\ pc = "main"
    /\ now = NoTime
    /\ todo = {}
    /\ file_path = NoFile
    /\ file_id = NoId
    /\ calls = <<>>
    /\ pre = EmptyMap
    /\ prevNow = NoTime
    /\ nfail = 0
    /\ ntouch = 0
    /\ synced = [p \in Paths |-> NoId]
    /\ stale = {}
    /\ restarts = 0
    /\ statfail = [p \in Paths |-> NoTime]
    /\ examined = [p \in Paths |-> NoTime]
    /\ completed = {}
    /\ attempted = {}

----------------------------------------------------------------------------
(* Environment *)

(* A file under the scan root is written: its mtime becomes the current time *)
Touch(p) ==
    /\ pc \in {"main", "walk"}
    /\ mtime[p] < clock
    /\ nevents < MaxEvents
    /\ ntouch' = ntouch + 1
    /\ mtime' = [mtime EXCEPT ![p] = clock]
    /\ synced' = [synced EXCEPT ![p] = NoId]
    /\ UNCHANGED <<clock, ALLOWED_EXTS, filename_to_fileid, remote, pc, now, todo,
                   file_path, file_id, calls, pre, prevNow, nfail, stale, restarts,
                   statfail, examined, completed, attempted>>

(* The process exits at any point and is started again one pause later: the *)
(* module is loaded afresh, filename_to_fileid = {} and main() begins.      *)
(* An exit between the create call and the record leaves the created id in  *)
(* stale.                                                                   *)
Restart ==
    /\ nevents < MaxEvents
    /\ restarts' = restarts + 1
    /\ clock + SLEEP <= MaxTime
    /\ clock' = clock + SLEEP
    /\ filename_to_fileid' = EmptyMap
    /\ pc' = "main"
    /\ now' = NoTime
    /\ todo' = {}
    /\ file_path' = NoFile
    /\ file_id' = NoId
    /\ calls' = <<>>
    /\ pre' = EmptyMap
    /\ prevNow' = NoTime
    /\ synced' = [p \in Paths |-> NoId]
    /\ stale' = IF pc = "add" THEN stale \cup {file_id} ELSE stale
    /\ statfail' = [p \in Paths |-> NoTime]
    /\ examined' = [p \in Paths |-> NoTime]
    /\ completed' = {}
    /\ attempted' = {}
    /\ UNCHANGED <<mtime, ALLOWED_EXTS, remote, nfail, ntouch>>

----------------------------------------------------------------------------
(* main(): while True: scan_and_upload_changes(watch_dir, interval=6); sleep(3) *)

StartCycle ==
    /\ pc = "main"
    /\ now' = clock
    /\ prevNow' = now
    /\ todo' = Walk
    /\ file_path' = NoFile
    /\ file_id' = NoId
    /\ calls' = <<>>
    /\ pc' = "walk"
    /\ UNCHANGED <<clock, mtime, ALLOWED_EXTS, filename_to_fileid, remote, pre,
                   nfail, ntouch, synced, stale, restarts,
                   statfail, examined, completed, attempted>>

cutoff == now - INTERVAL

(* One iteration of the for loops that ends in a continue or falls through  *)
(* the mtime test.                                                          *)
VisitSkipExtension(w) ==
    /\ pc = "walk"
    /\ w \in todo
    /\ ~has_allowed_extension(join(w[1], w[2]), ALLOWED_EXTS)
    /\ todo' = todo \ {w}
    /\ file_path' = join(w[1], w[2])
    /\ UNCHANGED <<clock, mtime, ALLOWED_EXTS, filename_to_fileid, remote, pc, now,
                   file_id, calls, pre, prevNow, nfail, ntouch, synced, stale, restarts,
                   statfail, examined, completed, attempted>>

(* Lines 192-196 without the continue: the file goes on to the upload *)
VisitStatFails_Proceeds(w) ==
    /\ pc = "walk"
    /\ w \in todo
    /\ has_allowed_extension(join(w[1], w[2]), ALLOWED_EXTS)
    /\ todo' = todo \ {w}
    /\ file_path' = join(w[1], w[2])
    /\ nevents < MaxEvents
    /\ nfail' = nfail + 1
    /\ statfail' = [statfail EXCEPT ![join(w[1], w[2])] = now]
    /\ examined' = [examined EXCEPT ![join(w[1], w[2])] = now]
    /\ pre' = filename_to_fileid
    /\ pc' = IF basename(join(w[1], w[2])) \in DOMAIN filename_to_fileid
             THEN "unlink" ELSE "upload"
    /\ UNCHANGED <<clock, mtime, ALLOWED_EXTS, filename_to_fileid, remote, now,
                   file_id, calls, prevNow, synced, stale, restarts, ntouch, completed, attempted>>

(* os.path.getmtime raises: the error is logged and the loop continues *)
VisitStatFails(w) ==
    /\ pc = "walk"
    /\ w \in todo
    /\ has_allowed_extension(join(w[1], w[2]), ALLOWED_EXTS)
    /\ todo' = todo \ {w}
    /\ file_path' = join(w[1], w[2])
    /\ nevents < MaxEvents
    /\ nfail' = nfail + 1
    /\ statfail' = [statfail EXCEPT ![join(w[1], w[2])] = now]
    /\ examined' = [examined EXCEPT ![join(w[1], w[2])] = now]
    /\ UNCHANGED <<clock, mtime, ALLOWED_EXTS, filename_to_fileid, remote, pc, now,
                   file_id, calls, pre, prevNow, synced, stale, restarts, ntouch, completed, attempted>>

VisitOld(w) ==
    /\ pc = "walk"
    /\ w \in todo
    /\ has_allowed_extension(join(w[1], w[2]), ALLOWED_EXTS)
    /\ ~(mtime[join(w[1], w[2])] >= cutoff)
    /\ todo' = todo \ {w}
    /\ file_path' = join(w[1], w[2])
    /\ examined' = [examined EXCEPT ![join(w[1], w[2])] = now]
    /\ UNCHANGED <<clock, mtime, ALLOWED_EXTS, filename_to_fileid, remote, pc, now,
                   file_id, calls, pre, prevNow, nfail, ntouch, synced, stale, restarts,
                   statfail, completed, attempted>>

(* mtime >= cutoff: the duplicate check of line 202 decides the next call *)
VisitChanged(w) ==
    /\ pc = "walk"
    /\ w \in todo
    /\ has_allowed_extension(join(w[1], w[2]), ALLOWED_EXTS)
    /\ mtime[join(w[1], w[2])] >= cutoff
    /\ todo' = todo \ {w}
    /\ file_path' = join(w[1], w[2])
    /\ pre' = filename_to_fileid
    /\ pc' = IF basename(join(w[1], w[2])) \in DOMAIN filename_to_fileid
             THEN "unlink" ELSE "upload"
    /\ examined' = [examined EXCEPT ![join(w[1], w[2])] = now]
    /\ UNCHANGED <<clock, mtime, ALLOWED_EXTS, filename_to_fileid, remote, now,
                   file_id, calls, prevNow, nfail, ntouch, synced, stale, restarts,
                   statfail, completed, attempted>>

(* remove_file_from_knowledge(filename_to_fileid[base_name]): a failure is  *)
(* logged inside the function and not raised.                               *)
RemoveFromKnowledge(ok) ==
    /\ pc = "unlink"
    /\ LET id == filename_to_fileid[basename(file_path)]
       IN  /\ calls' = Append(calls, Call("unlink", file_path, id, ok))
           /\ attempted' = attempted \cup {id}
           /\ remote' = IF ok /\ id \in DOMAIN remote
                        THEN [remote EXCEPT ![id].linked = FALSE]
                        ELSE remote
    /\ ok \/ nevents < MaxEvents
    /\ nfail' = IF ok THEN nfail ELSE nfail + 1
    /\ pc' = "delete"
    /\ UNCHANGED <<clock, mtime, ALLOWED_EXTS, filename_to_fileid, now, todo,
                   file_path, file_id, pre, prevNow, synced, stale, restarts, ntouch,
                   statfail, examined, completed>>

(* The duplicate block without line 206: the old mapping is kept *)
DeleteFromSystem_KeepsEntry(ok) ==
    /\ pc = "delete"
    /\ LET id == filename_to_fileid[basename(file_path)]
       IN  /\ calls' = Append(calls, Call("delete", file_path, id, ok))
           /\ attempted' = attempted \cup {id}
           /\ remote' = IF ok /\ id \in DOMAIN remote
                        THEN [remote EXCEPT ![id].exists = FALSE]
                        ELSE remote
    /\ ok \/ nevents < MaxEvents
    /\ nfail' = IF ok THEN nfail ELSE nfail + 1
    /\ pc' = "upload"
    /\ UNCHANGED <<clock, mtime, ALLOWED_EXTS, filename_to_fileid, now, todo,
                   file_path, file_id, pre, prevNow, synced, stale, restarts, ntouch,
                   statfail, examined, completed>>

(* delete_file_from_system(filename_to_fileid[base_name]), failure not      *)
(* raised, followed by del filename_to_fileid[base_name].                   *)
DeleteFromSystem(ok) ==
    /\ pc = "delete"
    /\ LET id == filename_to_fileid[basename(file_path)]
       IN  /\ calls' = Append(calls, Call("delete", file_path, id, ok))
           /\ attempted' = attempted \cup {id}
           /\ remote' = IF ok /\ id \in DOMAIN remote
                        THEN [remote EXCEPT ![id].exists = FALSE]
                        ELSE remote
    /\ ok \/ nevents < MaxEvents
    /\ nfail' = IF ok THEN nfail ELSE nfail + 1
    /\ filename_to_fileid' = dict_del(filename_to_fileid, basename(file_path))
    /\ pc' = "upload"
    /\ UNCHANGED <<clock, mtime, ALLOWED_EXTS, now, todo,
                   file_path, file_id, pre, prevNow, synced, stale, restarts, ntouch,
                   statfail, examined, completed>>

(* upload_file: open(file_path) raises before any request is made *)
UploadReadFails ==
    /\ pc = "upload"
    /\ nevents < MaxEvents
    /\ nfail' = nfail + 1
    /\ file_id' = NoId
    /\ pc' = "walk"
    /\ UNCHANGED <<clock, mtime, ALLOWED_EXTS, filename_to_fileid, remote, now, todo,
                   file_path, calls, pre, prevNow, synced, stale, restarts, ntouch,
                   statfail, examined, completed, attempted>>

(* The except of line 213 putting back the mapping the eviction removed *)
UploadFails_Restores ==
    /\ pc = "upload"
    /\ calls' = Append(calls, Call("create", file_path, NoId, FALSE))
    /\ nevents < MaxEvents
    /\ nfail' = nfail + 1
    /\ file_id' = NoId
    /\ filename_to_fileid' = pre
    /\ pc' = "walk"
    /\ UNCHANGED <<clock, mtime, ALLOWED_EXTS, remote, now, todo,
                   file_path, pre, prevNow, synced, stale, restarts, ntouch,
                   statfail, examined, completed, attempted>>

(* upload_file: the POST is rejected (raise_for_status) or answers without  *)
(* an id (return None); either way no link call follows.                    *)
UploadFails ==
    /\ pc = "upload"
    /\ calls' = Append(calls, Call("create", file_path, NoId, FALSE))
    /\ nevents < MaxEvents
    /\ nfail' = nfail + 1
    /\ file_id' = NoId
    /\ pc' = "walk"
    /\ UNCHANGED <<clock, mtime, ALLOWED_EXTS, filename_to_fileid, remote, now, todo,
                   file_path, pre, prevNow, synced, stale, restarts, ntouch,
                   statfail, examined, completed, attempted>>

(* Lines 208-212 with the record written as soon as the id is returned *)
UploadOk_Records ==
    /\ pc = "upload"
    /\ LET id == Len(remote) + 1
       IN  /\ remote' = Append(remote, [name |-> display_name(file_path),
                                        path |-> file_path,
                                        exists |-> TRUE, linked |-> FALSE])
           /\ calls' = Append(calls, Call("create", file_path, id, TRUE))
           /\ file_id' = id
           /\ filename_to_fileid' = dict_set(filename_to_fileid, basename(file_path), id)
    /\ pc' = "add"
    /\ UNCHANGED <<clock, mtime, ALLOWED_EXTS, now, todo,
                   file_path, pre, prevNow, nfail, ntouch, synced, stale, restarts,
                   statfail, examined, completed, attempted>>

(* upload_file returns the id of the file the service created *)
UploadOk ==
    /\ pc = "upload"
    /\ LET id == Len(remote) + 1
       IN  /\ remote' = Append(remote, [name |-> display_name(file_path),
                                        path |-> file_path,
                                        exists |-> TRUE, linked |-> FALSE])
           /\ calls' = Append(calls, Call("create", file_path, id, TRUE))
           /\ file_id' = id
    /\ pc' = "add"
    /\ UNCHANGED <<clock, mtime, ALLOWED_EXTS, filename_to_fileid, now, todo,
                   file_path, pre, prevNow, nfail, ntouch, synced, stale, restarts,
                   statfail, examined, completed, attempted>>

(* Lines 200-214 without the try: the exception of add_file_to_knowledge   *)
(* leaves scan_and_upload_changes and main.                                 *)
AddFails_Raises ==
    /\ pc = "add"
    /\ calls' = Append(calls, Call("link", file_path, file_id, FALSE))
    /\ nevents < MaxEvents
    /\ nfail' = nfail + 1
    /\ pc' = "exit"
    /\ UNCHANGED <<clock, mtime, ALLOWED_EXTS, filename_to_fileid, remote, now, todo,
                   file_path, file_id, pre, prevNow, synced, stale, restarts, ntouch,
                   statfail, examined, completed, attempted>>

(* add_file_to_knowledge(file_id) raises: the except of line 213 logs it *)
AddFails ==
    /\ pc = "add"
    /\ calls' = Append(calls, Call("link", file_path, file_id, FALSE))
    /\ nevents < MaxEvents
    /\ nfail' = nfail + 1
    /\ pc' = "walk"
    /\ UNCHANGED <<clock, mtime, ALLOWED_EXTS, filename_to_fileid, remote, now, todo,
                   file_path, file_id, pre, prevNow, synced, stale, restarts, ntouch,
                   statfail, examined, completed, attempted>>

(* add_file_to_knowledge(file_id) succeeds; filename_to_fileid[base_name] = file_id *)
AddOk ==
    /\ pc = "add"
    /\ calls' = Append(calls, Call("link", file_path, file_id, TRUE))
    /\ remote' = [remote EXCEPT ![file_id].linked = TRUE]
    /\ filename_to_fileid' = dict_set(filename_to_fileid, basename(file_path), file_id)
    /\ synced' = [synced EXCEPT ![file_path] = file_id]
    /\ completed' = completed \cup {file_id}
    /\ pc' = "walk"
    /\ UNCHANGED <<clock, mtime, ALLOWED_EXTS, now, todo,
                   file_path, file_id, pre, prevNow, nfail, ntouch, stale, restarts,
                   statfail, examined, attempted>>

(* os.walk is exhausted: scan_and_upload_changes returns *)
EndCycle ==
    /\ pc = "walk"
    /\ todo = {}
    /\ pc' = "sleep"
    /\ UNCHANGED <<clock, mtime, ALLOWED_EXTS, filename_to_fileid, remote, now, todo,
                   file_path, file_id, calls, pre, prevNow, nfail, ntouch, synced, stale, restarts,
                   statfail, examined, completed, attempted>>

(* time.sleep(3) returns: the scan took d seconds and the pause SLEEP more *)
Sleep(d) ==
    /\ pc = "sleep"
    /\ clock + d + SLEEP <= MaxTime
    /\ clock' = clock + d + SLEEP
    /\ pc' = "main"
    /\ UNCHANGED <<mtime, ALLOWED_EXTS, filename_to_fileid, remote, now, todo,
                   file_path, file_id, calls, pre, prevNow, nfail, ntouch, synced, stale, restarts,
                   statfail, examined, completed, attempted>>

Next ==
    \/ \E p \in Paths : Touch(p)
    \/ Restart
    \/ StartCycle
    \/ \E w \in Walk : VisitSkipExtension(w)
    \/ \E w \in Walk : VisitStatFails(w)
    \/ \E w \in Walk : VisitOld(w)
    \/ \E w \in Walk : VisitChanged(w)
    \/ \E ok \in BOOLEAN : RemoveFromKnowledge(ok)
    \/ \E ok \in BOOLEAN : DeleteFromSystem(ok)
    \/ UploadReadFails
    \/ UploadFails
    \/ UploadOk
    \/ AddFails
    \/ AddOk
    \/ EndCycle
    \/ \E d \in 0..(MaxTime - StartTime) : Sleep(d)

Spec == Init /\ [][Next]_vars

(* The steps of the process itself, as opposed to writes to files and to   *)
(* exits of the process: the interpreter always executes the statement it   *)
(* is at, so these steps are taken whenever one of them is possible.        *)
ProcessStep ==
    \/ StartCycle
    \/ \E w \in Walk : VisitSkipExtension(w)
    \/ \E w \in Walk : VisitStatFails(w)
    \/ \E w \in Walk : VisitOld(w)
    \/ \E w \in Walk : VisitChanged(w)
    \/ \E ok \in BOOLEAN : RemoveFromKnowledge(ok)
    \/ \E ok \in BOOLEAN : DeleteFromSystem(ok)
    \/ UploadReadFails
    \/ UploadFails
    \/ UploadOk
    \/ AddFails
    \/ AddOk
    \/ EndCycle
    \/ \E d \in 0..(MaxTime - StartTime) : Sleep(d)

(* The runs in which the allow-list names the extension b alone *)
FairInit == Init /\ ALLOWED_EXTS = parse_ALLOWED_EXTS(Env_b)

FairSpec == FairInit /\ [][Next]_vars /\ WF_vars(ProcessStep)

(* The shortest scan, in whole seconds, that lasts longer than the change   *)
(* window less the pause, and the latest start that leaves room in the      *)
(* model's clock for such a scan and the pause after it.                    *)
LongScan == INTERVAL - SLEEP + 1
EarlyTime == MaxTime - LongScan - SLEEP

(* The runs that start at EarlyTime with the allow-list b, every file       *)
(* having been written EarlyTime seconds before.                            *)
SlowInit ==
    /\ clock = EarlyTime
    /\ mtime = [p \in Paths |-> 0]
    /\ ALLOWED_EXTS = parse_ALLOWED_EXTS(Env_b)
    /\ filename_to_fileid = EmptyMap
    /\ remote = <<PreExisting>>
    /\ pc = "main"
    /\ now = NoTime
    /\ todo = {}
    /\ file_path = NoFile
    /\ file_id = NoId
    /\ calls = <<>>
    /\ pre = EmptyMap
    /\ prevNow = NoTime
    /\ nfail = 0
    /\ ntouch = 0
    /\ synced = [p \in Paths |-> NoId]
    /\ stale = {}
    /\ restarts = 0
    /\ statfail = [p \in Paths |-> NoTime]
    /\ examined = [p \in Paths |-> NoTime]
    /\ completed = {}
    /\ attempted = {}

SlowSpec == SlowInit /\ [][Next]_vars

----------------------------------------------------------------------------
(* Reading the history *)

CallsFor(p) ==
    LET about(c) == c.path = p
    IN  SelectSeq(calls, about)

Ops(p) == [k \in 1..Len(CallsFor(p)) |-> CallsFor(p)[k].op]

InTransition == pc \in {"unlink", "delete", "upload", "add"}

(* A path is tracked when the index has an entry for its basename *)
Tracked(p) ==
    /\ basename(p) \in DOMAIN filename_to_fileid
    /\ filename_to_fileid[basename(p)] # NoId

Eligible(p) == has_allowed_extension(p, ALLOWED_EXTS)

FirstCycle == now # NoTime /\ prevNow = NoTime

TypeOK ==
    /\ clock \in EarlyTime..MaxTime
    /\ pc \in {"main", "walk", "unlink", "delete", "upload", "add", "sleep"}
    /\ todo \subseteq Walk
    /\ file_path \in Paths \cup {NoFile}
    /\ DOMAIN filename_to_fileid \subseteq { basename(p) : p \in Paths }
    /\ \A b \in DOMAIN filename_to_fileid : filename_to_fileid[b] \in DOMAIN remote
    /\ nfail \in 0..MaxEvents
    /\ ntouch \in 0..MaxEvents
    /\ restarts \in 0..MaxEvents
    /\ nevents <= MaxEvents

----------------------------------------------------------------------------
(* C1. Idempotence: when no file has been written since the previous cycle  *)
(* of this process began, the cycle that follows it issues no gateway call  *)
(* (stated for runs in which nothing has failed).                           *)
C1_Idempotence ==
    (/\ pc = "sleep"
     /\ prevNow # NoTime
     /\ nfail = 0
     /\ \A p \in Paths : mtime[p] < prevNow)
    => calls = <<>>

(* C2. New-file convergence: at the end of the first cycle of a process, if *)
(* nothing has failed, every file with an allowed extension is tracked and  *)
(* exactly one create call and one link call were issued for its path,      *)
(* whatever its modification time.                                          *)
C2_NewFileConvergence ==
    (/\ pc = "sleep"
     /\ FirstCycle
     /\ nfail = 0)
    => \A p \in Paths :
          Eligible(p) =>
             /\ Tracked(p)
             /\ Cardinality({k \in 1..Len(CallsFor(p)) : CallsFor(p)[k].op = "create"}) = 1
             /\ Cardinality({k \in 1..Len(CallsFor(p)) : CallsFor(p)[k].op = "link"}) = 1

(* C3. Fingerprint-gated re-upload: no transition begins for a file whose   *)
(* upload completed, whose index entry is still the id of that upload and   *)
(* whose modification time has not changed since, when nothing has failed.  *)
C3_FingerprintGated ==
    ~(/\ InTransition
      /\ nfail = 0
      /\ synced[file_path] # NoId
      /\ basename(file_path) \in DOMAIN pre
      /\ pre[basename(file_path)] = synced[file_path])

(* The gateway calls of one file's transition come in the order unlink,     *)
(* delete, create, link, the unlink and the delete naming the same id, and  *)
(* the index entry of the basename is gone before the create call.          *)
EvictionOrder ==
    /\ \A p \in Paths :
          LET c == CallsFor(p)
              o == [k \in 1..Len(c) |-> c[k].op]
          IN  /\ \/ c = <<>>
                 \/ \E n \in 0..2 : o = SubSeq(<<"create", "link">>, 1, n)
                 \/ \E n \in 1..4 : o = SubSeq(<<"unlink", "delete", "create", "link">>, 1, n)
              /\ Len(c) >= 2 /\ o[1] = "unlink" => c[1].id = c[2].id
    /\ pc \in {"unlink", "delete"} =>
          /\ basename(file_path) \in DOMAIN filename_to_fileid
          /\ filename_to_fileid = pre
    /\ pc = "unlink" => Ops(file_path) = <<>>
    /\ pc = "delete" =>
          /\ Ops(file_path) = <<"unlink">>
          /\ CallsFor(file_path)[1].id = pre[basename(file_path)]
    /\ pc \in {"upload", "add"} =>
          basename(file_path) \notin DOMAIN filename_to_fileid

(* The file whose upload put id i into the index *)
UploadedFrom(i) == remote[i].path

(* C4 as claimed. Duplicate eviction: unlink, delete, removal of the entry, *)
(* then create, and only when the basename is in the index under a          *)
(* different local path.                                                    *)
C4_EvictionOnlyForOtherPath ==
    /\ EvictionOrder
    /\ pc \in {"unlink", "delete"} =>
          UploadedFrom(filename_to_fileid[basename(file_path)]) # file_path

(* C4 as amended. Duplicate eviction: whenever the basename of the file     *)
(* about to be uploaded is in the index, whichever path it was uploaded     *)
(* from, the unlink call, the delete call and the removal of the entry      *)
(* precede the create call, and eviction happens in exactly that case.      *)
C4_EvictionByBasename ==
    /\ EvictionOrder
    /\ pc \in {"upload", "add"} =>
          (basename(file_path) \in DOMAIN pre
             <=> (Len(Ops(file_path)) >= 2
                  /\ SubSeq(Ops(file_path), 1, 2) = <<"unlink", "delete">>
                  /\ CallsFor(file_path)[2].id = pre[basename(file_path)]))

(* A file is being uploaded again after the copy of its own earlier upload  *)
(* was evicted.                                                             *)
C4_Witness ==
    /\ pc = "add"
    /\ Ops(file_path) = <<"unlink", "delete", "create">>
    /\ UploadedFrom(CallsFor(file_path)[1].id) = file_path

----------------------------------------------------------------------------
FailedCall(p) == \E k \in 1..Len(CallsFor(p)) : ~CallsFor(p)[k].ok

(* The id of the create call that succeeded for p in this cycle, or NoId *)
CreatedFor(p) ==
    IF \E k \in 1..Len(CallsFor(p)) : CallsFor(p)[k].op = "create" /\ CallsFor(p)[k].ok
    THEN CallsFor(p)[CHOOSE k \in 1..Len(CallsFor(p)) :
                        CallsFor(p)[k].op = "create" /\ CallsFor(p)[k].ok].id
    ELSE NoId

Linked(p) ==
    \E k \in 1..Len(CallsFor(p)) :
        /\ CallsFor(p)[k].op = "link"
        /\ CallsFor(p)[k].ok
        /\ CallsFor(p)[k].id = CreatedFor(p)

(* C5. All-or-nothing index update: when a gateway call of a file's         *)
(* transition failed, filename_to_fileid after the transition equals        *)
(* filename_to_fileid before it (stated for the first failure of a run).    *)
C5_AllOrNothing ==
    (/\ pc = "walk"
     /\ file_path # NoFile
     /\ nfail = 1
     /\ FailedCall(file_path))
    => filename_to_fileid = pre

(* C6. Isolation: at the end of a cycle in which one file's gateway call    *)
(* failed and nothing else went wrong, every other file that was due for    *)
(* upload has had its create and link calls succeed and the index records   *)
(* the id created for it.                                                   *)
C6_Isolation ==
    (/\ pc = "sleep"
     /\ nfail = 1
     /\ ntouch = 0
     /\ Cardinality({q \in Paths : FailedCall(q)}) = 1)
    => \A p \in Paths :
          (Eligible(p) /\ mtime[p] >= cutoff /\ ~FailedCall(p)) =>
             /\ CreatedFor(p) # NoId
             /\ Linked(p)
             /\ Tracked(p)
             /\ filename_to_fileid[basename(p)] = CreatedFor(p)

(* C7. Index seeding: when the first cycle of a process begins, every name  *)
(* the collection lists is in filename_to_fileid.                           *)
C7_IndexSeeded ==
    (/\ pc = "walk"
     /\ FirstCycle
     /\ todo = Walk)
    => /\ DOMAIN fetch_knowledge_files(EmptyMap, remote) \subseteq DOMAIN filename_to_fileid
       /\ \A n \in DOMAIN fetch_knowledge_files(EmptyMap, remote) :
             filename_to_fileid[n] = fetch_knowledge_files(EmptyMap, remote)[n]

(* C8. Naming uniqueness: two remote files created from distinct local      *)
(* paths that share a basename carry different display names while both     *)
(* paths are tracked (stated for runs without failure, write or restart).   *)
C8_NamingUniqueness ==
    \A i, j \in DOMAIN remote :
        (/\ nevents = 0
         /\ remote[i].path # NoFile
         /\ remote[j].path # NoFile
         /\ remote[i].path # remote[j].path
         /\ basename(remote[i].path) = basename(remote[j].path)
         /\ Tracked(remote[i].path)
         /\ Tracked(remote[j].path))
        => remote[i].name # remote[j].name

(* C9. Crash recovery: after a restart, once the create call of the next    *)
(* upload for the basename of an interrupted upload has been issued, the    *)
(* stale copy has been unlinked and deleted by that upload.                 *)
C9_CrashRecovery ==
    \A i \in stale :
        (/\ pc = "add"
         /\ remote[i].name = basename(file_path))
        => /\ \E k \in 1..Len(calls) : calls[k].op = "unlink" /\ calls[k].id = i
           /\ \E k \in 1..Len(calls) : calls[k].op = "delete" /\ calls[k].id = i

(* C10. No accumulation of stale copies: at every cycle boundary of a       *)
(* process that has not been restarted, at most one of the remote files it  *)
(* created for a basename is linked to the collection.                      *)
C10_OneLinkedPerBasename ==
    (/\ pc \in {"main", "sleep"}
     /\ restarts = 0)
    => \A p \in Paths :
          Cardinality({i \in DOMAIN remote :
                          /\ remote[i].path # NoFile
                          /\ remote[i].name = basename(p)
                          /\ remote[i].exists
                          /\ remote[i].linked}) <= 1

----------------------------------------------------------------------------
(* C11. Gateway failures are surfaced: a failed unlink or delete call      *)
(* aborts the file's transition, so in the calls of a cycle no create call  *)
(* for a file comes after a failed unlink or a failed delete for that file. *)
C11_EvictionFailureAborts ==
    \A p \in Paths :
        LET c == CallsFor(p)
        IN  \A j, k \in 1..Len(c) :
                (j < k /\ c[j].op \in {"unlink", "delete"} /\ ~c[j].ok)
                => c[k].op # "create"

----------------------------------------------------------------------------
(* The lowercase extension of a file, without its dot; empty when the name *)
(* has no extension.                                                        *)
Extension(p) == lower(SubSeq(splitext_ext(p), 2, Len(splitext_ext(p))))

(* The allow-list is unset, or set to a text that names no extension *)
AllowListEmpty == ALLOWED_EXTS = None \/ ALLOWED_EXTS.exts = {}

(* C12. Extension allow-list: no gateway call is issued for a file whose    *)
(* lowercase extension is not in a non-empty allow-list; and at the end of  *)
(* the first cycle of an undisturbed run every file due for upload has its  *)
(* create call when the allow-list is unset or empty, or when the lowercase *)
(* of its extension is in the allow-list.                                   *)
C12_AllowList ==
    /\ ~AllowListEmpty =>
          \A k \in 1..Len(calls) : Extension(calls[k].path) \in ALLOWED_EXTS.exts
    /\ (pc = "sleep" /\ FirstCycle /\ nevents = 0) =>
          \A p \in Paths :
              (/\ mtime[p] >= cutoff
               /\ AllowListEmpty \/ Extension(p) \in ALLOWED_EXTS.exts)
              => \E k \in 1..Len(calls) : calls[k].op = "create" /\ calls[k].path = p

----------------------------------------------------------------------------
(* getmtime failed for p in the current cycle *)
StatFailed(p) == now # NoTime /\ statfail[p] = now

(* C13. Stat failure is skipped, not fatal: a file whose getmtime failed in *)
(* the current cycle has no gateway call in that cycle and never enters a   *)
(* transition, so the index is not changed on its behalf; at the end of     *)
(* every cycle every eligible file has been examined in that cycle, the     *)
(* files of earlier stat failures included; and when the stat failure is    *)
(* the only thing that went wrong, every other file that was due has been   *)
(* created and linked.                                                      *)
C13_StatFailureSkipped ==
    /\ \A p \in Paths : StatFailed(p) => CallsFor(p) = <<>>
    /\ InTransition => ~StatFailed(file_path)
    /\ pc = "sleep" => \A q \in Paths : Eligible(q) => examined[q] = now
    /\ (pc = "sleep" /\ nfail = 1 /\ ntouch = 0) =>
          \A q \in Paths :
              (/\ \E p \in Paths : StatFailed(p)
               /\ ~StatFailed(q)
               /\ Eligible(q)
               /\ mtime[q] >= cutoff)
              => CreatedFor(q) # NoId /\ Linked(q)

(* A cycle ends in which a file whose stat failed in the previous cycle was *)
(* examined again and uploaded, after another file had been uploaded in the *)
(* cycle of the failure.                                                    *)
C13_Witness ==
    /\ pc = "sleep"
    /\ \E p, q \in Paths :
          /\ p # q
          /\ statfail[p] # NoTime
          /\ statfail[p] = prevNow
          /\ examined[p] = now
          /\ CreatedFor(p) # NoId
          /\ synced[q] # NoId
          /\ CallsFor(q) = <<>>

----------------------------------------------------------------------------
InCycle == pc \in {"walk", "unlink", "delete", "upload", "add"}

(* C14. No error kind terminates the process: whatever stat, read and       *)
(* gateway failures occur, a cycle that has begun reaches the return of     *)
(* scan_and_upload_changes, and from the pause after a cycle the loop of    *)
(* main goes on to begin another cycle (while the clock of the model has    *)
(* room for the pause).                                                     *)
C14_NeverTerminates ==
    /\ InCycle ~> (pc = "sleep")
    /\ (pc = "sleep" /\ clock + SLEEP <= MaxTime) ~> (pc = "walk")

(* scan_and_upload_changes has returned from a cycle in which a gateway     *)
(* call failed for a file, after a cycle in which the stat of that file     *)
(* had failed.                                                              *)
C14_Witness ==
    /\ pc = "sleep"
    /\ prevNow # NoTime
    /\ \E p \in Paths : statfail[p] = prevNow /\ FailedCall(p)

----------------------------------------------------------------------------
(* The last gateway call issued for p in the current cycle *)
LastCall(p) == CallsFor(p)[Len(CallsFor(p))]

(* C15. Create-then-link-then-record: a link call comes directly after a    *)
(* create call for the same file that succeeded with a non-empty id, and    *)
(* names that id; while the link call is pending the index has no entry     *)
(* for the basename; once the file is done, the index maps the basename to  *)
(* that id when the link call succeeded, and has no entry for the basename  *)
(* when the create call or the link call failed or no id was returned.      *)
C15_CreateLinkRecord ==
    /\ \A k \in 1..Len(calls) :
          calls[k].op = "link" =>
             /\ k > 1
             /\ calls[k - 1].op = "create"
             /\ calls[k - 1].path = calls[k].path
             /\ calls[k - 1].ok
             /\ calls[k - 1].id # NoId
             /\ calls[k].id = calls[k - 1].id
    /\ pc = "add" =>
          /\ file_id # NoId
          /\ LastCall(file_path) = Call("create", file_path, file_id, TRUE)
          /\ basename(file_path) \notin DOMAIN filename_to_fileid
    /\ (pc = "walk" /\ file_path # NoFile /\ CallsFor(file_path) # <<>>) =>
          IF LastCall(file_path).op = "link" /\ LastCall(file_path).ok
          THEN /\ basename(file_path) \in DOMAIN filename_to_fileid
               /\ filename_to_fileid[basename(file_path)] = LastCall(file_path).id
          ELSE basename(file_path) \notin DOMAIN filename_to_fileid

(* A file has been created, linked and recorded in a cycle in which the     *)
(* create call of another file failed.                                      *)
C15_Witness ==
    /\ pc = "walk"
    /\ file_path # NoFile
    /\ Linked(file_path)
    /\ Tracked(file_path)
    /\ filename_to_fileid[basename(file_path)] = CreatedFor(file_path)
    /\ \E q \in Paths :
          /\ q # file_path
          /\ CallsFor(q) # <<>>
          /\ LastCall(q).op = "create"
          /\ ~LastCall(q).ok

----------------------------------------------------------------------------
(* The eviction of the entry of basename b is under way: the unlink call    *)
(* of line 204 has been issued and line 206 has not yet removed the entry.  *)
Evicting(b) == pc = "delete" /\ b = basename(file_path)

(* C16 as claimed. Index soundness: in every reachable state each entry of  *)
(* filename_to_fileid names a remote file this process created and linked   *)
(* successfully and has issued no unlink or delete call for.                *)
C16_IndexSoundEverywhere ==
    \A b \in DOMAIN filename_to_fileid :
        /\ filename_to_fileid[b] \in completed
        /\ filename_to_fileid[b] \notin attempted

(* C16 as amended. Index soundness: each entry of filename_to_fileid names  *)
(* a remote file this process created under that basename and linked        *)
(* successfully; and the process has issued no unlink or delete call for    *)
(* it, except while the eviction of that very entry is under way.           *)
C16_IndexSound ==
    \A b \in DOMAIN filename_to_fileid :
        /\ filename_to_fileid[b] \in completed
        /\ remote[filename_to_fileid[b]].name = b
        /\ filename_to_fileid[b] \in attempted => Evicting(b)

(* The index holds the id of a completed upload after this process has      *)
(* evicted an older id.                                                     *)
C16_Witness ==
    /\ pc = "walk"
    /\ attempted # {}
    /\ \E b \in DOMAIN filename_to_fileid :
          /\ filename_to_fileid[b] \in completed
          /\ filename_to_fileid[b] \notin attempted

----------------------------------------------------------------------------
(* C17. No missed modification: at the end of a cycle of a process that has *)
(* met no failure, every eligible file that was written during the run and  *)
(* before this cycle began has been uploaded since it was written, whatever *)
(* the duration of the cycles.                                              *)
C17_NoMissedModification ==
    \A p \in Paths :
        (/\ pc = "sleep"
         /\ nfail = 0
         /\ restarts = 0
         /\ Eligible(p)
         /\ ntouch > 0
         /\ mtime[p] > 0
         /\ mtime[p] < now)
        => synced[p] # NoId

----------------------------------------------------------------------------
(* The remote files created from p that exist and are linked *)
RemoteCopies(p) ==
    { i \in DOMAIN remote : remote[i].path = p /\ remote[i].exists /\ remote[i].linked }

(* C18. Coexistence of same-basename files: while every call has succeeded, *)
(* no unlink or delete call issued for a file names a remote file created   *)
(* from another path; and at the end of a cycle that uploaded two files of  *)
(* the same basename, each of them has a remote copy that exists and is     *)
(* linked.                                                                  *)
C18_Coexistence ==
    (nfail = 0 /\ restarts = 0) =>
        /\ \A k \in 1..Len(calls) :
              calls[k].op \in {"unlink", "delete"} =>
                 UploadedFrom(calls[k].id) = calls[k].path
        /\ pc = "sleep" =>
              \A p, q \in Paths :
                  (/\ p # q
                   /\ basename(p) = basename(q)
                   /\ CreatedFor(p) # NoId
                   /\ CreatedFor(q) # NoId)
                  => RemoteCopies(p) # {} /\ RemoteCopies(q) # {}
====
